---- MODULE Spec2Model ----
(***************************************************************************)
(* Model of ChatConsumer (src/consumers.py): one consumer per WebSocket    *)
(* connection, all consumers served by one event loop.  A consumer joins   *)
(* the channel-layer group of its room, appends binary frames to a         *)
(* temporary file, and on a text frame calls the hosted transcription and  *)
(* chat-completion services and group-sends the result.                    *)
(*                                                                         *)
(* Strings are sequences of tokens: a literal of the source is one token,  *)
(* a character of a variable text is one token.  Bytes are sequences of    *)
(* small integers.                                                         *)
(*                                                                         *)
(* The framework calls connect() once, then receive() and chat_message()   *)
(* one at a time per consumer, then disconnect() once, after which the     *)
(* consumer is stopped (driver = "framework").  A caller that holds the    *)
(* consumer object may instead call its handlers itself, after disconnect  *)
(* too (driver = "direct", SpecDirect): the handlers test no state of      *)
(* their own.  The two hosted calls are synchronous, so between            *)
(* a call and its return no handler of any consumer runs; the model has a  *)
(* state for that interval (pc) and an action for each return.             *)
(*                                                                         *)
(* req records what the latest inbound frame caused (calls, replies,       *)
(* group_sends, relayed frames); received records the bytes a connection   *)
(* was sent and finalizes counts its finalize requests.  Of these the      *)
(* actions read only req.path, the branch of receive() the in-flight       *)
(* request is in, and req.id, which tags events.                           *)
(***************************************************************************)
EXTENDS Integers, Sequences, FiniteSets, TLC

\* ------------------------------------------------------------------ bounds
MaxEvents   == 6   \* handler invocations in a run, over all connections
MaxFrames   == 3   \* inbound frames among them
MaxTextLen  == 1   \* length of a text returned by a hosted service
MaxChunkLen == 1   \* length of one binary audio chunk

\* ------------------------------------------------------------- value sets
Sessions   == {"A", "B", "C"}
Whitespace == {" "}
Chars      == {"a"} \cup Whitespace
Diags      == {<<"timeout">>}

SeqsUpTo(S, n) == UNION {[1..k -> S] : k \in 0..n}

\* Audio chunks are told apart by their bytes: the chunk of the k-th inbound
\* frame of a run is made of the byte k.
Bytes    == 1..MaxFrames
Chunks   == UNION {[1..k -> {b}] : k \in 0..MaxChunkLen, b \in Bytes}
RawTexts == SeqsUpTo(Chars, MaxTextLen)
UserTexts == {<<"h", "i">>}

\* An outcome of a call to a hosted service: a value or a raised exception.
Outcomes == [ok : {TRUE}, val : RawTexts] \cup [ok : {FALSE}, val : Diags]

\* ------------------------------------------------------------ text helpers
RECURSIVE lstrip(_)
lstrip(t) ==
    IF t = <<>> THEN <<>>
    ELSE IF Head(t) \in Whitespace THEN lstrip(Tail(t)) ELSE t

RECURSIVE rstrip(_)
rstrip(t) ==
    IF t = <<>> THEN <<>>
    ELSE IF t[Len(t)] \in Whitespace THEN rstrip(SubSeq(t, 1, Len(t) - 1)) ELSE t

strip(t) == rstrip(lstrip(t))

Contains(t, d) ==
    \E i \in 0..(Len(t) - Len(d)) : SubSeq(t, i + 1, i + Len(d)) = d

\* ---------------------------------------------------------- inbound frames
\* A JSON value as json.loads returns it.  For an object, action and message
\* are its two keys of interest; "<absent>" marks a key the object lacks.
NoText == <<>>
Absent == [present |-> FALSE, isstr |-> FALSE, text |-> NoText]
MessageVals ==
    {Absent}
    \cup [present : {TRUE}, isstr : {TRUE}, text : UserTexts]
    \cup {[present |-> TRUE, isstr |-> FALSE, text |-> <<"5">>]}
ActionVals == {"<absent>", "finalize_audio", "other"}

JsonObjects == [jtype : {"object"}, action : ActionVals, message : MessageVals]
JsonScalars ==
    [jtype : {"null", "number", "string", "array"},
     action : {"<absent>"}, message : {Absent}]
JsonValues == JsonObjects \cup JsonScalars

NoJson == [jtype |-> "null", action |-> "<absent>", message |-> Absent]

\* text_data: the empty string, a string that is no JSON, or a JSON text.
TextData ==
    [syntax : {"empty", "invalid"}, value : {NoJson}]
    \cup [syntax : {"json"}, value : JsonValues]
NoTextData == [syntax |-> "empty", value |-> NoJson]

\* One inbound WebSocket frame: bytes_data or text_data.
Frames ==
    [kind : {"bytes"}, bytes_data : Chunks, text_data : {NoTextData}]
    \cup [kind : {"text"}, bytes_data : {<<>>}, text_data : TextData]

\* ------------------------------------------------------------- connections
\* scope['url_route']['kwargs']['room_name'] of each connection.
room_name(s) == IF s \in {"A", "B"} THEN "x" ELSE "y"

room_group_name_shared(s) == "chat_"
room_group_name(s) == "chat_" \o room_name(s)

GroupNames == {room_group_name(s) : s \in Sessions}

\* self._audio_path: the name of a temporary file created for the connection,
\* which no other connection has.  A path is named after its connection.
audio_path_shared(s) == "A"
audio_path(s) == s

\* --------------------------------------------------------------- variables
VARIABLES
    driver,     \* who calls the handlers: "framework" or "direct"
    api_key,    \* openai.api_key is set (a process-wide setting)
    conn,       \* conn[s]: "New", "Open", "Closed" or "Crashed"
    audio,      \* audio[p]: the temporary file at path p: [exists, data]
    groups,     \* groups[g]: the channels the channel layer holds in group g
    channel,    \* channel[s]: events the channel layer holds for s's channel
    acks,       \* acks[s]: the frames connect() sent down s's socket
    pc,         \* pc[s]: "idle", or the hosted call receive() is inside
    user_text,  \* user_text[s]: the text the in-flight request of s works on
    nevents,    \* handler invocations so far
    nframes,    \* inbound frames handled so far
    received,   \* received[s]: every byte received since connect, in order
    finalizes,  \* finalizes[s]: the finalize_audio requests the consumer of s
                \* has handled
    req         \* what the latest inbound frame caused: the calls made, the
                \* frames sent (replies), the group_sends (casts) and the frames
                \* chat_message relayed for them (relayed)

vars == <<driver, api_key, conn, audio, groups, channel, acks, pc, user_text,
          nevents, nframes, received, finalizes, req>>

NoCall == [called |-> FALSE, ok |-> FALSE, val |-> NoText]
NoReq ==
    [who |-> "A", id |-> 0, path |-> "none", shape |-> "none", done |-> TRUE,
     with_message |-> FALSE, before |-> <<>>, audio |-> <<>>,
     transcribe |-> NoCall, asked |-> NoText, correct |-> NoCall,
     replies |-> <<>>, casts |-> <<>>,
     relayed |-> [s \in Sessions |-> <<>>]]

NoFile == [exists |-> FALSE, data |-> <<>>]

\* tempfile.NamedTemporaryFile(delete=False), closed at once: an empty file
NewFile == [exists |-> TRUE, data |-> <<>>]

Init ==
    /\ driver = "framework"
    /\ api_key \in BOOLEAN
    /\ conn = [s \in Sessions |-> "New"]
    /\ audio = [s \in Sessions |-> NoFile]
    /\ groups = [g \in GroupNames |-> {}]
    /\ channel = [s \in Sessions |-> <<>>]
    /\ acks = [s \in Sessions |-> <<>>]
    /\ pc = [s \in Sessions |-> "idle"]
    /\ user_text = [s \in Sessions |-> NoText]
    /\ nevents = 0
    /\ nframes = 0
    /\ received = [s \in Sessions |-> <<>>]
    /\ finalizes = [s \in Sessions |-> 0]
    /\ req = NoReq

\* The hosted calls are synchronous calls made inside a coroutine: from the
\* call to its return the one event loop runs no other handler.
LoopFree_tasks == TRUE
LoopFree == \A s \in Sessions : pc[s] = "idle"

\* The event loop starts one more handler.
Invoke ==
    /\ LoopFree
    /\ nevents < MaxEvents
    /\ nevents' = nevents + 1

\* The handlers of s can be called: its dispatch loop runs, or the caller
\* holds a consumer whose disconnect() has returned.
Called(s) ==
    \/ conn[s] = "Open"
    \/ driver = "direct" /\ conn[s] = "Closed"

\* self.send(text_data=json.dumps({"message": text})): one more frame after
\* the frames `out` already sent
send(out, text) == Append(out, [message |-> text])

\* self.send from receive(): a frame written to a socket that is closed
\* reaches no one.
reply(s, out, text) == IF conn[s] = "Open" THEN send(out, text) ELSE out

\* channel_layer.group_send: one event on the channel of every group member.
\* The channel of a consumer that has died has no reader: an event for it
\* expires unread.
group_send(ch, members, text, id) ==
    [s \in Sessions |->
        IF s \in members /\ conn[s] # "Crashed"
        THEN Append(ch[s], [type |-> "chat_message", message |-> text, id |-> id])
        ELSE ch[s]]

group_add(gs, g, s) == [gs EXCEPT ![g] = @ \cup {s}]

group_discard_skipped(gs, g, s) == gs
group_discard(gs, g, s) == [gs EXCEPT ![g] = @ \ {s}]

connected_text(s) == <<"Connected to room ", room_name(s)>>

\* self.send in connect(): one frame down the socket of this connection
send_self_to_room(out, s, text) ==
    [x \in Sessions |->
        IF room_name(x) = room_name(s) /\ (x = s \/ conn[x] = "Open")
        THEN send(out[x], text) ELSE out[x]]
send_self(out, s, text) == [out EXCEPT ![s] = send(@, text)]

\* ChatConsumer.connect
connect(s) ==
    /\ Invoke
    /\ conn[s] = "New"
    /\ conn' = [conn EXCEPT ![s] = "Open"]
    /\ audio' = [audio EXCEPT ![audio_path(s)] = NewFile]
    /\ groups' = group_add(groups, room_group_name(s), s)
    /\ acks' = send_self(acks, s, connected_text(s))
    /\ UNCHANGED <<driver, api_key, channel, pc, user_text, nframes, received,
                   finalizes, req>>

\* os.remove(self._audio_path) inside try/except: the file is gone, and the
\* FileNotFoundError of a missing file is swallowed (raised: it leaves the
\* handler)
remove_unguarded(f) == [file |-> NoFile, raised |-> ~f.exists]
remove(f) == [file |-> NoFile, raised |-> FALSE]

\* ChatConsumer.disconnect, after which the consumer stops: the events still
\* on its channel are never read and go with the channel
disconnect(s) ==
    /\ Invoke
    /\ Called(s)
    /\ audio' = [audio EXCEPT ![audio_path(s)] = remove(@).file]
    /\ IF remove(audio[audio_path(s)]).raised
       THEN /\ conn' = [conn EXCEPT ![s] = "Crashed"]
            /\ UNCHANGED groups
       ELSE /\ conn' = [conn EXCEPT ![s] = "Closed"]
            /\ groups' = group_discard(groups, room_group_name(s), s)
    /\ channel' = [channel EXCEPT ![s] = <<>>]
    /\ finalizes' = [finalizes EXCEPT ![s] = 0]
    /\ UNCHANGED <<driver, api_key, acks, pc, user_text, nframes, received,
                   req>>

\* ChatConsumer.chat_message: relay one group event to the client
chat_message(s) ==
    /\ Invoke
    /\ conn[s] = "Open"
    /\ channel[s] # <<>>
    /\ channel' = [channel EXCEPT ![s] = Tail(@)]
    /\ req' = IF Head(channel[s]).id = req.id
              THEN [req EXCEPT !.relayed[s] = send(@, Head(channel[s]).message)]
              ELSE req
    /\ UNCHANGED <<driver, api_key, acks, conn, audio, groups, pc, user_text,
                   nframes, received, finalizes>>

\* ------------------------------------------------------- ChatConsumer.receive
\* open(self._audio_path, 'ab').write(bytes_data): creates the file if missing
write_truncating(f, b) == [exists |-> TRUE, data |-> b]
write_append(f, b) == [exists |-> TRUE, data |-> f.data \o b]

\* json.loads(text_data)
json_loads(td) == [ok |-> td.syntax = "json", data |-> td.value]

\* `not openai.api_key`
key_ignored(k) == FALSE
key_missing(k) == ~k

\* transcript.get('text', '').strip()
text_unstripped(raw) == raw
text_of(raw) == strip(raw)

\* 'message' in data, for the data of a text frame
has_message(f) ==
    /\ f.kind = "text"
    /\ json_loads(f.text_data).ok
    /\ f.text_data.value.message.present

\* The path receive() takes for a frame, from its conditions in order:
\*   "append"   bytes_data is truthy
\*   "drop"     nothing to do: empty frame, not JSON, or neither key matches
\*   "raise"    data.get raises AttributeError: the JSON value is no object
\*   "finalize" data.get('action') == 'finalize_audio'
\*   "plain"    'message' in data
route_message_first(f) ==
    IF f.bytes_data # <<>> THEN "append"
    ELSE IF f.kind # "text" \/ f.text_data.syntax = "empty" THEN "drop"
    ELSE IF ~json_loads(f.text_data).ok THEN "drop"
    ELSE LET data == json_loads(f.text_data).data IN
         IF data.jtype # "object" THEN "raise"
         ELSE IF data.message.present THEN "plain"
         ELSE IF data.action = "finalize_audio" THEN "finalize"
         ELSE "drop"

route(f) ==
    IF f.bytes_data # <<>> THEN "append"
    ELSE IF f.kind # "text" \/ f.text_data.syntax = "empty" THEN "drop"
    ELSE IF ~json_loads(f.text_data).ok THEN "drop"
    ELSE LET data == json_loads(f.text_data).data IN
         IF data.jtype # "object" THEN "raise"
         ELSE IF data.action = "finalize_audio" THEN "finalize"
         ELSE IF data.message.present THEN "plain"
         ELSE "drop"

\* What a frame is in the terms of the documented protocol (the docstring of
\* receive): "finalize" is {"action": "finalize_audio"}, "message" is
\* {"message": "<string>"}, and every other text frame is one of
\* "unparseable", "non-object", "bad-message" (a message that is no string)
\* and "no-key".  A binary frame is "bytes".
shape(f) ==
    IF f.kind = "bytes" THEN "bytes"
    ELSE IF f.text_data.syntax # "json" THEN "unparseable"
    ELSE LET v == f.text_data.value IN
         IF v.jtype # "object" THEN "non-object"
         ELSE IF v.action = "finalize_audio" THEN "finalize"
         ELSE IF ~v.message.present THEN "no-key"
         ELSE IF v.message.isstr THEN "message"
         ELSE "bad-message"

NewReq(s, f, path, done) ==
    [NoReq EXCEPT !.who = s, !.id = nframes + 1, !.path = path,
                  !.shape = shape(f), !.with_message = has_message(f),
                  !.done = done, !.before = received[s]]

\* The dispatch loop hands the next inbound frame of s to receive().
Handling(s) ==
    /\ Invoke
    /\ Called(s)
    /\ nframes < MaxFrames
    /\ nframes' = nframes + 1

\* bytes_data: append to the temporary file
receive_bytes(s, f) ==
    /\ Handling(s)
    /\ route(f) = "append"
    /\ \A i \in 1..Len(f.bytes_data) : f.bytes_data[i] = nframes + 1
    /\ audio' = [audio EXCEPT ![audio_path(s)] = write_append(@, f.bytes_data)]
    /\ received' = [received EXCEPT ![s] = @ \o f.bytes_data]
    /\ UNCHANGED finalizes
    /\ req' = NewReq(s, f, "append", TRUE)
    /\ UNCHANGED <<driver, api_key, acks, conn, groups, channel, pc,
                   user_text>>

\* a frame receive() returns from without doing anything
receive_dropped(s, f) ==
    /\ Handling(s)
    /\ route(f) = "drop"
    /\ req' = NewReq(s, f, "drop", TRUE)
    /\ UNCHANGED <<driver, api_key, acks, conn, audio, groups, channel, pc,
                   user_text, received, finalizes>>

\* data.get raises on a JSON value that is no object: the exception leaves
\* receive(), the consumer dies without disconnect() having run
receive_raises(s, f) ==
    /\ Handling(s)
    /\ route(f) = "raise"
    /\ conn' = [conn EXCEPT ![s] = "Crashed"]
    /\ req' = NewReq(s, f, "raise", TRUE)
    /\ UNCHANGED <<driver, api_key, acks, audio, groups, channel, pc,
                   user_text, received, finalizes>>

key_error_text == <<"OpenAI key not configured on server.">>

transcription_error_bare(e) == <<"Transcription error: ">>
transcription_error_text(e) == <<"Transcription error: ">> \o e

file_error == <<"[Errno 2] No such file or directory">>

\* finalize_audio: the key check, then open(self._audio_path, 'rb') and the
\* call of openai.Audio.transcribe
receive_finalize(s, f) ==
    /\ Handling(s)
    /\ route(f) = "finalize"
    /\ IF key_missing(api_key)
       THEN /\ req' = [NewReq(s, f, "finalize", TRUE)
                         EXCEPT !.replies = reply(s, @, key_error_text)]
            /\ UNCHANGED pc
       ELSE IF ~audio[audio_path(s)].exists
       THEN /\ req' = [NewReq(s, f, "finalize", TRUE)
                         EXCEPT !.replies =
                                  reply(s, @,
                                        transcription_error_text(file_error))]
            /\ UNCHANGED pc
       ELSE /\ pc' = [pc EXCEPT ![s] = "transcribe"]
            /\ req' = [NewReq(s, f, "finalize", FALSE)
                         EXCEPT !.audio = audio[audio_path(s)].data,
                                !.transcribe.called = TRUE]
    /\ finalizes' = [finalizes EXCEPT ![s] = @ + 1]
    /\ UNCHANGED <<driver, api_key, acks, conn, audio, groups, channel,
                   user_text, received>>

\* The file once the `with open(self._audio_path, 'rb')` block is left: it is
\* closed, and nothing in receive() truncates or removes it.
after_transcribe_cleared(f) == [exists |-> TRUE, data |-> <<>>]
after_transcribe(f) == f

\* `except Exception` around each hosted call (lines 66 and 103): whether an
\* exception of the call leaves the handler
escapes_unguarded(o) == ~o.ok
escapes(o) == FALSE

\* an exception leaves receive(): the consumer dies where it stands
handler_dies(s) ==
    /\ conn' = [conn EXCEPT ![s] = "Crashed"]
    /\ pc' = [pc EXCEPT ![s] = "idle"]
    /\ user_text' = [user_text EXCEPT ![s] = NoText]
    /\ req' = [req EXCEPT !.done = TRUE]

\* openai.Audio.transcribe returns or raises
transcribe_returns(s, o) ==
    /\ pc[s] = "transcribe"
    /\ IF escapes(o)
       THEN handler_dies(s)
       ELSE IF ~o.ok
       THEN /\ req' = [req EXCEPT
                         !.transcribe.val = o.val,
                         !.replies =
                             reply(s, @, transcription_error_text(o.val)),
                         !.done = TRUE]
            /\ pc' = [pc EXCEPT ![s] = "idle"]
            /\ UNCHANGED <<conn, user_text>>
       ELSE /\ UNCHANGED conn
            /\ IF text_of(o.val) # <<>>
               THEN /\ pc' = [pc EXCEPT ![s] = "correct"]
                    /\ user_text' = [user_text EXCEPT ![s] = text_of(o.val)]
                    /\ req' = [req EXCEPT !.transcribe.val = o.val,
                                          !.transcribe.ok = TRUE,
                                          !.asked = text_of(o.val),
                                          !.correct.called = TRUE]
               ELSE /\ pc' = [pc EXCEPT ![s] = "idle"]
                    /\ UNCHANGED user_text
                    /\ req' = [req EXCEPT !.transcribe.val = o.val,
                                          !.transcribe.ok = TRUE,
                                          !.done = TRUE]
    /\ audio' = [audio EXCEPT ![audio_path(s)] = after_transcribe(@)]
    /\ UNCHANGED <<driver, api_key, acks, groups, channel, nevents, nframes,
                   received, finalizes>>

\* a plain message: the call of get_ai_correction(data['message'])
receive_message(s, f) ==
    /\ Handling(s)
    /\ route(f) = "plain"
    /\ pc' = [pc EXCEPT ![s] = "correct"]
    /\ user_text' = [user_text EXCEPT ![s] = f.text_data.value.message.text]
    /\ req' = [NewReq(s, f, "plain", FALSE)
                 EXCEPT !.asked = f.text_data.value.message.text,
                        !.correct.called = TRUE]
    /\ UNCHANGED <<driver, api_key, acks, conn, audio, groups, channel,
                   received, finalizes>>

ai_error_bare(e) == <<"AI error: ">>
ai_error_text(e) == <<"AI error: ">> \o e

\* what get_ai_correction returns for the outcome of ChatCompletion.create
get_ai_correction(o) == IF o.ok THEN strip(o.val) ELSE ai_error_text(o.val)

transcribed_message_one_line(t, r) ==
    <<"User (transcribed): ">> \o t \o <<"AI correction: ">> \o r
transcribed_message(t, r) ==
    <<"User (transcribed): ">> \o t \o <<"\n", "AI correction: ">> \o r

\* the text receive() hands to group_send
broadcast_text(path, t, r) ==
    IF path = "finalize" THEN transcribed_message(t, r) ELSE r

\* The chat-completion call returns a non-empty content or raises; without a
\* key it cannot succeed.
CorrectOutcomes ==
    {o \in Outcomes : IF o.ok THEN api_key /\ o.val # <<>> ELSE TRUE}

\* openai.ChatCompletion.create returns or raises, then the group_send
correct_returns(s, o) ==
    /\ pc[s] = "correct"
    /\ o \in CorrectOutcomes
    /\ IF escapes(o)
       THEN handler_dies(s) /\ UNCHANGED channel
       ELSE LET text == broadcast_text(req.path, user_text[s],
                                       get_ai_correction(o))
                g == room_group_name(s)
            IN /\ channel' = group_send(channel, groups[g], text, req.id)
               /\ req' = [req EXCEPT
                            !.correct.ok = o.ok,
                            !.correct.val = o.val,
                            !.casts = Append(@, [group |-> g, message |-> text,
                                                 to |-> groups[g],
                                                 open |->
                                                   {x \in Sessions :
                                                      conn[x] = "Open"}]),
                            !.done = TRUE]
               /\ pc' = [pc EXCEPT ![s] = "idle"]
               /\ user_text' = [user_text EXCEPT ![s] = NoText]
               /\ UNCHANGED conn
    /\ UNCHANGED <<driver, api_key, acks, audio, groups, nevents, nframes,
                   received, finalizes>>

Next ==
    \/ \E s \in Sessions : connect(s)
    \/ \E s \in Sessions : disconnect(s)
    \/ \E s \in Sessions : chat_message(s)
    \/ \E s \in Sessions, f \in Frames : receive_bytes(s, f)
    \/ \E s \in Sessions, f \in Frames : receive_dropped(s, f)
    \/ \E s \in Sessions, f \in Frames : receive_raises(s, f)
    \/ \E s \in Sessions, f \in Frames : receive_finalize(s, f)
    \/ \E s \in Sessions, f \in Frames : receive_message(s, f)
    \/ \E s \in Sessions, o \in Outcomes : transcribe_returns(s, o)
    \/ \E s \in Sessions, o \in Outcomes : correct_returns(s, o)

Spec == Init /\ [][Next]_vars

\* The handlers called directly, after disconnect() too.
InitDirect ==
    /\ driver = "direct"
    /\ api_key \in BOOLEAN
    /\ conn = [s \in Sessions |-> "New"]
    /\ audio = [s \in Sessions |-> NoFile]
    /\ groups = [g \in GroupNames |-> {}]
    /\ channel = [s \in Sessions |-> <<>>]
    /\ acks = [s \in Sessions |-> <<>>]
    /\ pc = [s \in Sessions |-> "idle"]
    /\ user_text = [s \in Sessions |-> NoText]
    /\ nevents = 0
    /\ nframes = 0
    /\ received = [s \in Sessions |-> <<>>]
    /\ finalizes = [s \in Sessions |-> 0]
    /\ req = NoReq

SpecDirect == InitDirect /\ [][Next]_vars

\* ------------------------------------------------------------------ claims
\* The latest request has run to its end on the path `path`.
Ended(path) == req.done /\ req.path = path

\* The events of the latest request still waiting on the channel of s.
Pending(s) == SelectSeq(channel[s], LAMBDA e : e.id = req.id)

\* The frames chat_message has relayed to s for the latest request.
Relayed(s) == req.relayed[s]

AllWhitespace(t) == \A i \in 1..Len(t) : t[i] \in Whitespace

SameRoom(a, b) == room_name(a) = room_name(b)

\* C1: when a finalize request reaches the transcription call, the bytes
\* handed to transcribe are the concatenation, in arrival order, of every
\* binary chunk the session received before the request.
C1_TranscribedBytes ==
    req.transcribe.called => req.audio = req.before

C1_Witness ==
    /\ req.transcribe.called
    /\ Len(req.before) >= 2
    /\ req.before[1] # req.before[2]

\* C2: a plain message whose correction succeeds with result r causes exactly
\* one group_send of r to the group of the sender's room and no private reply;
\* its recipients are the sessions of that room connected at that time, the
\* sender among them, and no session of another room; each recipient still
\* connected has the frame {message: r} relayed once, or waiting to be.
C2_PlainBroadcast ==
    (Ended("plain") /\ req.correct.ok) =>
        /\ Len(req.casts) = 1
        /\ req.replies = <<>>
        /\ LET c == req.casts[1]
               r == strip(req.correct.val)
           IN /\ c.message = r
              /\ req.who \in c.to
              /\ \A s \in c.to : SameRoom(s, req.who)
              /\ \A s \in c.open : SameRoom(s, req.who) => s \in c.to
              /\ \A s \in Sessions :
                    /\ \A i \in 1..Len(Pending(s)) : Pending(s)[i].message = r
                    /\ \A i \in 1..Len(Relayed(s)) :
                          Relayed(s)[i] = [message |-> r]
                    /\ Len(Pending(s)) + Len(Relayed(s)) =
                          IF s \in c.to /\ conn[s] = "Open" THEN 1
                          ELSE Len(Relayed(s))
                    /\ Len(Relayed(s)) <= 1
                    /\ Len(Relayed(s)) = 1 => s \in c.to

C2_Witness ==
    /\ Ended("plain") /\ req.correct.ok
    /\ req.who = "A"
    /\ Len(Relayed("A")) = 1 /\ Len(Relayed("B")) = 1
    /\ conn["C"] = "Open"

\* C3: a finalize request whose transcription call fails with diagnostic d
\* ends with exactly one private reply, which contains d, with no group_send
\* and without a call of the correction service.
C3_TranscriptionError ==
    (Ended("finalize") /\ req.transcribe.called /\ ~req.transcribe.ok) =>
        /\ Len(req.replies) = 1
        /\ Contains(req.replies[1].message, req.transcribe.val)
        /\ req.casts = <<>>
        /\ \A s \in Sessions : Relayed(s) = <<>>
        /\ ~req.correct.called

C3_Witness ==
    /\ Ended("finalize") /\ req.transcribe.called /\ ~req.transcribe.ok
    /\ req.transcribe.val = <<"timeout">>

Malformed == req.shape \in {"unparseable", "non-object", "no-key", "bad-message"}

C5_MalformedSilent ==
    Malformed =>
        /\ req.replies = <<>>
        /\ req.casts = <<>>
        /\ ~req.transcribe.called
        /\ ~req.correct.called

\* C6: once a session that held audio has disconnected, its file is gone and
\* it is no member of its room's group, and a group_send made when it was no
\* longer connected neither reaches its channel nor is relayed to it.
C6_AfterDisconnect ==
    \A s \in Sessions :
        (conn[s] = "Closed" /\ received[s] # <<>>) =>
            /\ ~audio[s].exists
            /\ s \notin groups[room_group_name(s)]
            /\ \A i \in 1..Len(req.casts) :
                  s \notin req.casts[i].open =>
                      /\ s \notin req.casts[i].to
                      /\ Pending(s) = <<>>
                      /\ Relayed(s) = <<>>

\* B received a chunk as an earlier frame than A's request and was no longer
\* connected when A's request was group-sent.
C6_Witness ==
    /\ conn["B"] = "Closed" /\ received["B"] # <<>>
    /\ received["B"][1] < req.id
    /\ req.who = "A"
    /\ Len(req.casts) = 1 /\ "B" \notin req.casts[1].open
    /\ Len(Relayed("A")) = 1

\* C7: while one session waits on a hosted call, an event already sent to the
\* group for another session of the same room can still be relayed to it.
C7_NoBlocking ==
    \A a, b \in Sessions :
        (a # b /\ SameRoom(a, b) /\ pc[a] # "idle"
            /\ conn[b] = "Open" /\ channel[b] # <<>>) =>
            ENABLED chat_message(b)

\* C8: a finalize request received while no key is configured ends with
\* exactly one private configuration-error reply: neither hosted service is
\* called and nothing is group-sent.
C8_NoKey ==
    (req.path = "finalize" /\ ~api_key) =>
        /\ req.done
        /\ req.replies = <<[message |-> <<"OpenAI key not configured on server.">>]>>
        /\ ~req.transcribe.called
        /\ ~req.correct.called
        /\ req.casts = <<>>
        /\ \A s \in Sessions : Relayed(s) = <<>>

C8_Witness == req.path = "finalize" /\ ~api_key /\ req.before # <<>>

\* C9: a finalize request with a non-empty transcript t ends with exactly one
\* group_send and no private reply, whether the correction succeeds or fails;
\* the text is the line "User (transcribed): t" then the line
\* "AI correction: r", r the correction or the text of its error.
C9_TranscribedBroadcast ==
    (Ended("finalize") /\ req.transcribe.ok
        /\ ~AllWhitespace(req.transcribe.val)) =>
        /\ Len(req.casts) = 1
        /\ req.replies = <<>>
        /\ req.correct.called
        /\ LET t == strip(req.transcribe.val)
               m == req.casts[1].message
               first == <<"User (transcribed): ">> \o t \o <<"\n">>
               second == SubSeq(m, Len(first) + 1, Len(m))
           IN /\ Len(m) > Len(first)
              /\ SubSeq(m, 1, Len(first)) = first
              /\ Head(second) = "AI correction: "
              /\ IF req.correct.ok
                 THEN Tail(second) = strip(req.correct.val)
                 ELSE Contains(Tail(second), req.correct.val)
              /\ req.who \in req.casts[1].to

C9_Witness ==
    /\ Ended("finalize") /\ req.transcribe.ok
    /\ req.transcribe.val = <<"a">>
    /\ ~req.correct.ok

C9_WitnessOk ==
    /\ Ended("finalize") /\ req.transcribe.ok
    /\ req.transcribe.val = <<"a">>
    /\ req.correct.ok /\ req.correct.val = <<"a">>

\* C10: a plain message whose correction fails with diagnostic d ends with
\* exactly one group_send to the room, of a text containing d, and with no
\* private reply.
C10_CorrectionError ==
    (Ended("plain") /\ ~req.correct.ok) =>
        /\ Len(req.casts) = 1
        /\ Contains(req.casts[1].message, req.correct.val)
        /\ req.casts[1].group = room_group_name(req.who)
        /\ req.who \in req.casts[1].to
        /\ \A s \in req.casts[1].open : SameRoom(s, req.who) => s \in req.casts[1].to
        /\ req.replies = <<>>

C10_Witness ==
    /\ Ended("plain") /\ ~req.correct.ok
    /\ req.shape = "message"
    /\ req.correct.val = <<"timeout">>
    /\ Len(Relayed("B")) = 1

\* A step of a finalize request: receive() taking the finalize branch, or one
\* of its hosted calls returning.
FinalizeStep == req'.path = "finalize" /\ (req'.id # req.id \/ pc' # pc)

\* C11: no step of a finalize request changes the audio file, whatever the
\* outcome (key error, transcription error, empty transcript, broadcast); so
\* the bytes a finalize hands to transcribe are all the bytes received since
\* connect, those transcribed by an earlier finalize included.
C11_FinalizeKeepsAudio ==
    [][FinalizeStep =>
         /\ audio' = audio
         /\ req'.transcribe.called => req'.audio = received'[req'.who]]_vars

C11_Witness ==
    /\ Ended("finalize")
    /\ finalizes[req.who] = 2
    /\ req.transcribe.called
    /\ req.audio = <<2>>
    /\ audio[req.who].data = <<2>>

\* C12: Closed is terminal: a connection whose disconnect() has returned has
\* no audio file, whatever frames are handled afterwards, and no frame handled
\* afterwards puts it inside a hosted call.
C12_ClosedIsTerminal ==
    \A s \in Sessions :
        conn[s] = "Closed" => ~audio[s].exists /\ pc[s] = "idle"

\* C13: the audio file of a connection exists exactly while the connection
\* is Open: not before connect, and not once the connection is over.
C13_BufferIffOpen ==
    \A s \in Sessions : audio[s].exists <=> conn[s] = "Open"

\* C14: a call of disconnect() on a connection already Closed, its file
\* missing or not, raises nothing: the connection stays Closed, it has no
\* file afterwards, and the groups, the channels and the latest request are
\* as they were; with the file already missing the files are as they were too.
C14_DisconnectIdempotent ==
    [][\A s \in Sessions :
         conn[s] = "Closed" /\ disconnect(s) =>
           /\ conn' = conn
           /\ ~audio'[s].exists
           /\ ~audio[s].exists => audio' = audio
           /\ groups' = groups
           /\ channel' = channel
           /\ req' = req]_vars

\* connect, disconnect and a third handler call that is no frame and cannot
\* be chat_message (A's channel is empty, no one else is connected): the
\* second disconnect of A.
C14_Witness ==
    /\ nevents = 3
    /\ nframes = 0
    /\ conn = [s \in Sessions |-> IF s = "A" THEN "Closed" ELSE "New"]
    /\ audio["A"] = NoFile
    /\ \A g \in GroupNames : groups[g] = {}

\* The hosted call s was inside returns to the handler with a failure.
FailedReturn(s) ==
    /\ pc[s] # "idle"
    /\ pc'[s] = "idle"
    /\ \/ req'.transcribe.called /\ ~req'.transcribe.ok
       \/ req'.correct.called /\ ~req'.correct.ok

\* C15: when a hosted call of a request of s fails, the request ends with s
\* still Open and still in the group of its room, every audio file as it
\* was, and the event loop free to hand s its next frame.
C15_FailureKeepsSession ==
    [][\A s \in Sessions :
         FailedReturn(s) =>
           /\ conn'[s] = "Open"
           /\ s \in groups'[room_group_name(s)]
           /\ audio' = audio
           /\ req'.done
           /\ \A x \in Sessions : pc'[x] = "idle"]_vars

\* a finalize whose correction call failed has ended, with audio in the file:
\* the connection is Open, a member, and its next frame can be handled
C15_Witness ==
    /\ req.done
    /\ req.correct.called /\ ~req.correct.ok
    /\ req.transcribe.ok
    /\ conn[req.who] = "Open"
    /\ req.who \in groups[room_group_name(req.who)]
    /\ audio[req.who].data # <<>>
    /\ ENABLED (\E f \in Frames : receive_message(req.who, f))

\* The events on a channel are in the order of the requests that sent them.
InRequestOrder(ch) ==
    \A i, j \in 1..Len(ch) : i < j => ch[i].id < ch[j].id

\* C16: the frames of a connection are handled one at a time, in arrival
\* order: the handling of a frame starts only when the handling of the frame
\* before it has ended, a hosted call included, and the group events of the
\* requests lie on every channel in the order of the requests.
C16_OneFrameAtATime ==
    [][/\ req'.id # req.id => req.done /\ req'.id = req.id + 1
       /\ \A s \in Sessions : InRequestOrder(channel'[s])]_vars

\* the first two frames of the run are finalize requests of A, each with a
\* transcription and a correction call; both broadcasts wait on A's channel
C16_Witness ==
    /\ nframes = 2
    /\ finalizes["A"] = 2
    /\ req.done
    /\ Len(channel["A"]) = 2
    /\ channel["A"][1].id = 1
    /\ channel["A"][2].id = 2

Range(q) == {q[i] : i \in 1..Len(q)}

\* C17: the audio files of different connections are apart: the file of a
\* connection holds no byte that another connection received, and the bytes
\* handed to transcribe for a connection hold none either.  (The bytes of
\* different chunks differ.)
C17_BuffersIsolated ==
    \A s, t \in Sessions :
        s # t =>
          /\ Range(audio[audio_path(s)].data) \cap Range(received[t]) = {}
          /\ req.transcribe.called /\ req.who = s =>
               Range(req.audio) \cap Range(received[t]) = {}

\* A and B have each received a chunk, and a finalize of B has transcribed
\* B's chunk alone
C17_Witness ==
    /\ received["A"] = <<1>>
    /\ received["B"] = <<2>>
    /\ audio[audio_path("A")].data = <<1>>
    /\ req.who = "B"
    /\ req.transcribe.called
    /\ req.audio = <<2>>

\* C18: connect() leaves its connection Open, with an empty audio file and in
\* the group of its room, and sends one frame, the acknowledgment, down the
\* socket of that connection: nothing goes to another connection, by socket
\* or by channel.
C18_ConnectAcksCallerOnly ==
    [][\A s \in Sessions :
         conn[s] = "New" /\ conn'[s] = "Open" =>
           /\ audio'[audio_path(s)] = NewFile
           /\ s \in groups'[room_group_name(s)]
           /\ acks'[s] = <<[message |-> connected_text(s)]>>
           /\ \A x \in Sessions \ {s} : acks'[x] = acks[x]
           /\ channel' = channel
           /\ req' = req]_vars

\* A and B, of one room, are both connected and nothing else has happened:
\* each has its own acknowledgment and no more
C18_Witness ==
    /\ nevents = 2
    /\ conn["A"] = "Open" /\ conn["B"] = "Open"
    /\ acks["A"] = <<[message |-> <<"Connected to room ", "x">>]>>
    /\ acks["B"] = <<[message |-> <<"Connected to room ", "x">>]>>
    /\ audio[audio_path("B")] = NewFile
    /\ groups["chat_x"] = {"A", "B"}
    /\ \A s \in Sessions : channel[s] = <<>>

\* C19: once a text frame that is unparseable or of neither documented shape
\* (a JSON array, string, number or null included) has been handled, and
\* until the connection is disconnected, the connection is Open, in the
\* group of its room, and its audio file holds what it held before the frame.
C19_MalformedChangesNothing ==
    Malformed /\ conn[req.who] # "Closed" =>
      /\ conn[req.who] = "Open"
      /\ req.who \in groups[room_group_name(req.who)]
      /\ audio[audio_path(req.who)] = [exists |-> TRUE, data |-> req.before]

\* C20: a frame that carries both the action "finalize_audio" and a message
\* key takes the finalize branch alone: if a correction is asked for, it is
\* asked for the stripped transcript, never for the frame's message, and
\* what is group-sent is the two-line transcribed message, never a plain
\* correction.
C20_FinalizeWins ==
    req.shape = "finalize" /\ req.with_message =>
      /\ req.path = "finalize"
      /\ req.correct.called =>
           /\ req.transcribe.ok
           /\ req.asked = text_of(req.transcribe.val)
           /\ req.asked \notin UserTexts \cup {<<"5">>}
      /\ \A i \in 1..Len(req.casts) :
           /\ Head(req.casts[i].message) = "User (transcribed): "
           /\ req.casts[i].message # get_ai_correction(req.correct)

\* a finalize frame with a message key has been transcribed, corrected and
\* broadcast
C20_Witness ==
    /\ Ended("finalize")
    /\ req.with_message
    /\ req.correct.called /\ req.correct.ok
    /\ Len(req.casts) = 1
    /\ Len(Relayed(req.who)) = 1

====
